---- MODULE Spec2Model ----
(***************************************************************************)
(* A model of the keyword-anchored PDF assembly pipeline of                *)
(* pss-report-compiler: create_pdf_from_word, find_keywords_in_pdf and     *)
(* insert_pdfs_at_keywords of pdf_inserter.py, and Worker.run of worker.py *)
(* that sequences them and reports through two signals.                    *)
(*                                                                         *)
(* Strings that the code searches (labels, page text) are sequences of     *)
(* one-character strings, so that Python's `keyword in text` is a real     *)
(* substring test. A PDF file is a record [ok, pages]; ok = FALSE is a     *)
(* file that cannot be opened or parsed. A page is a record                *)
(* [src, idx, text]: where it came from and the text pdfplumber extracts.  *)
(***************************************************************************)
EXTENDS Integers, Sequences, FiniteSets, TLC

\* ---------------------------------------------------------------- bounds
\* Main-PDF pages in the runs of find_keywords_in_pdf and
\* insert_pdfs_at_keywords taken on their own.
MaxPages == 3
\* Pages of the Word document in the runs of Worker.
MaxDocPages == 2
\* Length of the keyword list handed to find_keywords_in_pdf on its own.
MaxKeywords == 2
\* Length of one label's insert list handed to insert_pdfs_at_keywords.
MaxFiles == 2

\* ------------------------------------------------------- program constants
\* pdf_inserter.py:8
WD_PDF_FORMAT == 17

\* ------------------------------------------------------------ the universe
LabelX == <<"x">>
LabelY == <<"y">>
LabelXY == <<"x", "y">>
\* Labels are non-empty strings (spec section 3: a human-meaningful heading;
\* add_more.py:111-113 refuses an empty heading).
Labels == {LabelX, LabelY, LabelXY}
\* Extracted page texts: none, "x", "yx" (holds x and y but not xy), "xy".
Texts == {<< >>, <<"x">>, <<"y", "x">>, <<"x", "y">>}

MainPdf == "report.pdf"
OtherPdf == "out.pdf"
InsertFiles == {"bad.pdf", "f1.pdf", "f2.pdf"}
Paths == {MainPdf, OtherPdf} \cup InsertFiles

NoException == [kind |-> "none", msg |-> "", at |-> "none"]

Page(src, idx, text) == [src |-> src, idx |-> idx, text |-> text]

Unreadable == [ok |-> FALSE, pages |-> << >>]

PdfOf(src, n) == [ok |-> TRUE, pages |-> [i \in 1..n |-> Page(src, i - 1, << >>)]]

\* The insert files on disk: f1.pdf has two pages, f2.pdf one, bad.pdf cannot
\* be read (validity is only found out when the file is opened).
InsertFileContent(p) ==
    CASE p = "f1.pdf" -> PdfOf("f1.pdf", 2)
      [] p = "f2.pdf" -> PdfOf("f2.pdf", 1)
      [] OTHER -> Unreadable

SeqsUpTo(S, n) == UNION {[1..k -> S] : k \in 0..n}

IsInjective(s) == \A i, j \in 1..Len(s) : s[i] = s[j] => i = j

VARIABLES
    fs,                \* the files: path -> [ok, pages]
    fs_before,         \* the files as they were when the run began
    word_doc,          \* the Word document: the text of each of its pages
    insert_pdfs,       \* dict label -> list of paths, in insertion order
    wpc,               \* Worker.run: Idle, Converting, Locating, Assembling, Done, Failed
    signals,           \* the signals the Worker has emitted, in order
    exc,               \* the exception being propagated, if any
    cpc,               \* create_pdf_from_word: position
    session,           \* the Word session: none, active, quit
    quit_calls,        \* number of calls of word.Quit()
    doc,               \* the local doc: None, open, closed
    pending,           \* the exception the finally block will re-raise
    lpc,               \* find_keywords_in_pdf: position
    keywords,          \* its keyword list
    scan_i,            \* its loop index i over reversed(pdf.pages)
    pdf_pages_len,     \* its pdf_pages_len
    keyword_page_map,  \* the dict it builds and returns, which the assembler reads
    apc,               \* insert_pdfs_at_keywords: position
    output_pdf_path,   \* its output path
    main_len,          \* len(main_reader.pages), fixed when the loop starts
    page_num,          \* its loop index
    output_writer,     \* the pages added to the PdfWriter so far
    opened,            \* the insert files it has tried to open
    out_opened         \* whether the output file has been opened for writing

VARIABLES
    mpc,               \* merge_pdfs_in_folder: position
    folder,            \* the names of the files in the folder
    damaged,           \* the files of the folder that cannot be read as a PDF
    pdf_files,         \* its sorted list pdf_files
    merge_i,           \* its position in the loop over pdf_files
    merger,            \* the pages appended to its PdfWriter so far
    merge_out,         \* the file at its output path: [exists, pages]
    merge_out_before   \* that file as it was before the call

VARIABLES
    report_input,      \* Interface: the text of the report path field
    workers,           \* the Workers created, in order: [word_path, pdf_path, stage]
    dialogs,           \* the progress dialogs created, in order: "visible",
                       \* "hidden" (by hide()) or "rejected" (by the user)
    queue,             \* the Worker signals queued for the GUI thread
    boxes,             \* the titles of the error message boxes that are open,
                       \* the topmost last
    launched,          \* the paths handed to os.startfile
    aborted            \* the process was ended by Qt

vars == <<fs, fs_before, word_doc, insert_pdfs, wpc, signals, exc, cpc, session,
          quit_calls, doc, pending, lpc, keywords, scan_i, pdf_pages_len,
          keyword_page_map, apc, output_pdf_path, main_len, page_num,
          output_writer, opened, out_opened,
          mpc, folder, damaged, pdf_files, merge_i, merger, merge_out, merge_out_before,
          report_input, workers, dialogs, queue, boxes, launched, aborted>>

mergeVars == <<mpc, folder, damaged, pdf_files, merge_i, merger, merge_out, merge_out_before>>
ifaceVars == <<report_input, workers, dialogs, queue, boxes, launched, aborted>>

inputVars == <<fs_before, word_doc, insert_pdfs>>
workerVars == <<wpc, signals>>
convVars == <<cpc, session, quit_calls, doc, pending>>
locVars == <<lpc, keywords, scan_i, pdf_pages_len, keyword_page_map>>
asmVars == <<apc, output_pdf_path, main_len, page_num, output_writer, opened, out_opened>>

\* ------------------------------------------------ insert_pdfs as a dict
Keys(d) == [i \in 1..Len(d) |-> d[i].keyword]

KeySet(d) == {d[i].keyword : i \in 1..Len(d)}

PathsOf(d, k) == (CHOOSE e \in {d[i] : i \in 1..Len(d)} : e.keyword = k).paths

Entry(k, ps) == [keyword |-> k, paths |-> ps]

\* No call of merge_pdfs_in_folder.
Absent == [exists |-> FALSE, pages |-> << >>]

MergeIdle ==
    /\ mpc = "none"
    /\ folder = {}
    /\ damaged = {}
    /\ pdf_files = << >>
    /\ merge_i = 0
    /\ merger = << >>
    /\ merge_out = Absent
    /\ merge_out_before = Absent

\* No Interface.
NoText == [stem |-> "", suffix |-> ""]

IfaceIdle ==
    /\ report_input = NoText
    /\ aborted = FALSE
    /\ workers = << >>
    /\ dialogs = << >>
    /\ queue = << >>
    /\ boxes = << >>
    /\ launched = << >>

\* ------------------------------------------------- create_pdf_from_word
\* doc.SaveAs(str(output_path), FileFormat=...): Word renders each page of the
\* document; the file is a PDF only for the PDF format number.
SaveAsResult(d, FileFormat) ==
    [ok |-> FileFormat = 17,
     pages |-> [i \in 1..Len(d) |-> Page("main", i - 1, d[i])]]

EngineError(step) == [kind |-> "com_error", msg |-> step, at |-> step]

\* raise RuntimeError(f"{e}") from e
Wrapped(e) == [kind |-> "RuntimeError", msg |-> e.msg, at |-> e.at]

ConvIdle ==
    /\ cpc = "none"
    /\ session = "none"
    /\ quit_calls = 0
    /\ doc = "None"
    /\ pending = NoException

\* line 18: word = win32com.client.Dispatch('Word.Application')
Dispatch ==
    /\ cpc = "dispatch"
    /\ \E ok \in BOOLEAN :
        IF ok
        THEN /\ session' = "active"
             /\ cpc' = "alerts"
             /\ exc' = exc
        ELSE /\ session' = session
             /\ cpc' = "raised"
             /\ exc' = EngineError("Dispatch")
    /\ UNCHANGED <<fs, inputVars, mergeVars, ifaceVars, workerVars, quit_calls, doc, pending, locVars, asmVars>>

\* lines 19-20: word.DisplayAlerts = False; doc = None  (before the try)
SetDisplayAlerts ==
    /\ cpc = "alerts"
    /\ \E ok \in BOOLEAN :
        IF ok
        THEN /\ cpc' = "open"
             /\ exc' = exc
        ELSE /\ cpc' = "raised"
             /\ exc' = EngineError("DisplayAlerts")
    /\ UNCHANGED <<fs, inputVars, mergeVars, ifaceVars, workerVars, session, quit_calls, doc, pending,
                   locVars, asmVars>>

\* line 22: doc = word.Documents.Open(str(word_path))
DocumentsOpen ==
    /\ cpc = "open"
    /\ \E ok \in BOOLEAN :
        IF ok
        THEN /\ doc' = "open"
             /\ cpc' = "show_revisions"
             /\ pending' = pending
        ELSE /\ doc' = doc
             /\ cpc' = "except"
             /\ pending' = EngineError("Open")
    /\ UNCHANGED <<fs, inputVars, mergeVars, ifaceVars, workerVars, exc, session, quit_calls, locVars, asmVars>>

\* line 23: doc.ShowRevisions = False
SetShowRevisions ==
    /\ cpc = "show_revisions"
    /\ \E ok \in BOOLEAN :
        IF ok
        THEN /\ cpc' = "print_revisions"
             /\ pending' = pending
        ELSE /\ cpc' = "except"
             /\ pending' = EngineError("ShowRevisions")
    /\ UNCHANGED <<fs, inputVars, mergeVars, ifaceVars, workerVars, exc, session, quit_calls, doc, locVars, asmVars>>

\* line 24: doc.PrintRevisions = False
SetPrintRevisions ==
    /\ cpc = "print_revisions"
    /\ \E ok \in BOOLEAN :
        IF ok
        THEN /\ cpc' = "save_as"
             /\ pending' = pending
        ELSE /\ cpc' = "except"
             /\ pending' = EngineError("PrintRevisions")
    /\ UNCHANGED <<fs, inputVars, mergeVars, ifaceVars, workerVars, exc, session, quit_calls, doc, locVars, asmVars>>

\* line 25: doc.SaveAs(str(output_path), FileFormat=WD_PDF_FORMAT)
SaveAs ==
    /\ cpc = "save_as"
    /\ \E ok \in BOOLEAN :
        IF ok
        THEN /\ fs' = [fs EXCEPT ![MainPdf] = SaveAsResult(word_doc, WD_PDF_FORMAT)]
             /\ cpc' = "close"
             /\ pending' = pending
        ELSE /\ fs' = fs
             /\ cpc' = "except"
             /\ pending' = EngineError("SaveAs")
    /\ UNCHANGED <<inputVars, mergeVars, ifaceVars, workerVars, exc, session, quit_calls, doc, locVars, asmVars>>

\* line 26: doc.Close()
DocClose ==
    /\ cpc = "close"
    /\ \E ok \in BOOLEAN :
        IF ok
        THEN /\ doc' = "closed"
             /\ cpc' = "finally"
             /\ pending' = pending
        ELSE /\ doc' = doc
             /\ cpc' = "except"
             /\ pending' = EngineError("Close")
    /\ UNCHANGED <<fs, inputVars, mergeVars, ifaceVars, workerVars, exc, session, quit_calls, locVars, asmVars>>

\* lines 27-30: except Exception as e: if doc is not None: doc.Close();
\* raise RuntimeError(f"{e}") from e.  An error of the handler's own Close
\* leaves the handler in place of the RuntimeError.
ExceptHandler ==
    /\ cpc = "except"
    /\ \E ok \in BOOLEAN :
        IF doc = "None" \/ ok
        THEN /\ doc' = IF doc = "None" THEN doc ELSE "closed"
             /\ pending' = Wrapped(pending)
        ELSE /\ doc' = doc
             /\ pending' = EngineError("HandlerClose")
    /\ cpc' = "finally"
    /\ UNCHANGED <<fs, inputVars, mergeVars, ifaceVars, workerVars, exc, session, quit_calls, locVars, asmVars>>

\* line 32: finally: word.Quit().  An error of Quit replaces the pending
\* exception and skips gc.collect().
Quit ==
    /\ cpc = "finally"
    /\ quit_calls' = quit_calls + 1
    /\ \E ok \in BOOLEAN :
        IF ok
        THEN /\ session' = "quit"
             /\ cpc' = "gc"
             /\ exc' = exc
             /\ pending' = pending
        ELSE /\ session' = session
             /\ cpc' = "raised"
             /\ exc' = EngineError("Quit")
             /\ pending' = NoException
    /\ UNCHANGED <<fs, inputVars, mergeVars, ifaceVars, workerVars, doc, locVars, asmVars>>

\* line 33: gc.collect(), then the function returns or the pending exception
\* goes on to the caller.
GcCollect ==
    /\ cpc = "gc"
    /\ IF pending = NoException
       THEN /\ cpc' = "returned"
            /\ exc' = exc
       ELSE /\ cpc' = "raised"
            /\ exc' = pending
    /\ pending' = NoException
    /\ UNCHANGED <<fs, inputVars, mergeVars, ifaceVars, workerVars, session, quit_calls, doc, locVars, asmVars>>

create_pdf_from_word ==
    \/ Dispatch
    \/ SetDisplayAlerts
    \/ DocumentsOpen
    \/ SetShowRevisions
    \/ SetPrintRevisions
    \/ SaveAs
    \/ DocClose
    \/ ExceptHandler
    \/ Quit
    \/ GcCollect

\* ------------------------------------------------- find_keywords_in_pdf
\* Python's `keyword in text` for strings.
IsSubstring(k, t) ==
    \E s \in 0..(Len(t) - Len(k)) : SubSeq(t, s + 1, s + Len(k)) = k

\* line 86: `if text:` is false for the empty string.
Truthy(text) == Len(text) > 0

\* A slip of line 88: the `not in keyword_page_map` test left out, so that a
\* page nearer the front overwrites the page already recorded.
ShouldRecordOverwriting(keyword, text, kpm) ==
    IsSubstring(keyword, text)

\* line 88: if keyword in text and keyword not in keyword_page_map
ShouldRecord(keyword, text, kpm) ==
    IsSubstring(keyword, text) /\ keyword \notin DOMAIN kpm

\* Python's d[k] = v on a dict
DictSet(d, k, v) == [x \in DOMAIN d \cup {k} |-> IF x = k THEN v ELSE d[x]]

\* A slip of line 90: the page number counted from 1.
PageNumberFromOne(len, i) == len - i

\* line 90: the page number of the i-th page of reversed(pdf.pages)
PageNumber(len, i) == len - 1 - i

\* A slip of lines 87-90: a `break` after the first keyword recorded for a
\* page, so that the other keywords of that page are not looked at.
RECURSIVE ScanKeywordsFirstOnly(_, _, _, _)
ScanKeywordsFirstOnly(kws, text, number, kpm) ==
    IF kws = << >>
    THEN kpm
    ELSE IF IsSubstring(Head(kws), text) /\ Head(kws) \notin DOMAIN kpm
         THEN DictSet(kpm, Head(kws), number)
         ELSE ScanKeywordsFirstOnly(Tail(kws), text, number, kpm)

\* lines 87-90: the loop over the keywords for one page
RECURSIVE ScanKeywords(_, _, _, _)
ScanKeywords(kws, text, number, kpm) ==
    IF kws = << >>
    THEN kpm
    ELSE ScanKeywords(Tail(kws), text, number,
                      IF ShouldRecord(Head(kws), text, kpm)
                      THEN DictSet(kpm, Head(kws), number)
                      ELSE kpm)

\* lines 78-92: the dict after the first n pages of reversed(pdf.pages), as a
\* function of the pages and the keyword list.
RECURSIVE FindKeywordsAfter(_, _, _)
FindKeywordsAfter(n, pages, kws) ==
    IF n = 0
    THEN << >>
    ELSE LET prev == FindKeywordsAfter(n - 1, pages, kws)
             text == pages[Len(pages) - (n - 1)].text
         IN  IF Truthy(text)
             THEN ScanKeywords(kws, text, PageNumber(Len(pages), n - 1), prev)
             ELSE prev

LocIdle ==
    /\ lpc = "none"
    /\ keywords = << >>
    /\ scan_i = 0
    /\ pdf_pages_len = 0

\* lines 78-82: keyword_page_map = {}; pdfplumber.open(main_pdf_path);
\* pdf_pages_len = len(pdf.pages)
LocOpen ==
    /\ lpc = "open"
    /\ keyword_page_map' = << >>
    /\ scan_i' = 0
    /\ IF fs[MainPdf].ok
       THEN /\ pdf_pages_len' = Len(fs[MainPdf].pages)
            /\ lpc' = "scan"
            /\ exc' = exc
       ELSE /\ pdf_pages_len' = pdf_pages_len
            /\ lpc' = "raised"
            /\ exc' = [kind |-> "PdfError", msg |-> "pdfplumber.open", at |-> "locate"]
    /\ UNCHANGED <<fs, inputVars, mergeVars, ifaceVars, workerVars, convVars, keywords, asmVars>>

\* lines 84-90: one page of reversed(pdf.pages); extract_text may raise on a
\* malformed page.
LocScanPage ==
    /\ lpc = "scan"
    /\ scan_i < pdf_pages_len
    /\ \E ok \in BOOLEAN :
        IF ok
        THEN LET text == fs[MainPdf].pages[pdf_pages_len - scan_i].text
             IN  /\ keyword_page_map' =
                        IF Truthy(text)
                        THEN ScanKeywords(keywords, text,
                                          PageNumber(pdf_pages_len, scan_i),
                                          keyword_page_map)
                        ELSE keyword_page_map
                 /\ scan_i' = scan_i + 1
                 /\ lpc' = lpc
                 /\ exc' = exc
        ELSE /\ keyword_page_map' = keyword_page_map
             /\ scan_i' = scan_i
             /\ lpc' = "raised"
             /\ exc' = [kind |-> "PdfError", msg |-> "extract_text", at |-> "locate"]
    /\ UNCHANGED <<fs, inputVars, mergeVars, ifaceVars, workerVars, convVars, keywords, pdf_pages_len, asmVars>>

\* line 92: return keyword_page_map
LocReturn ==
    /\ lpc = "scan"
    /\ scan_i = pdf_pages_len
    /\ lpc' = "returned"
    /\ UNCHANGED <<fs, inputVars, mergeVars, ifaceVars, workerVars, exc, convVars, keywords, scan_i,
                   pdf_pages_len, keyword_page_map, asmVars>>

find_keywords_in_pdf ==
    \/ LocOpen
    \/ LocScanPage
    \/ LocReturn

\* ---------------------------------------------- insert_pdfs_at_keywords
\* A slip of line 56: <= for ==, the bundle repeated after every later page.
MatchesFromAnchorOn(keyword, kpm, num) ==
    keyword \in DOMAIN kpm /\ kpm[keyword] <= num

\* A slip of line 56: keyword_page_map.get(keyword, 0) == page_num, a label
\* that was not found treated as anchored at the first page.
MatchesWithDefault(keyword, kpm, num) ==
    IF keyword \in DOMAIN kpm THEN kpm[keyword] = num ELSE num = 0

\* line 56: if keyword in keyword_page_map and keyword_page_map[keyword] == page_num
Matches(keyword, kpm, num) ==
    keyword \in DOMAIN kpm /\ kpm[keyword] = num

NoPages == [ok |-> TRUE, pages |-> << >>, opened |-> {}, failed |-> ""]

\* lines 58-62: one label's insert list: each file is opened and all its pages
\* are added; the first file that cannot be read raises.
RECURSIVE ReadInsertFiles(_, _)
ReadInsertFiles(paths, files) ==
    IF paths = << >>
    THEN NoPages
    ELSE LET p == Head(paths)
         IN  IF ~files[p].ok
             THEN [ok |-> FALSE, pages |-> << >>, opened |-> {p}, failed |-> p]
             ELSE LET rest == ReadInsertFiles(Tail(paths), files)
                  IN  [ok |-> rest.ok,
                       pages |-> files[p].pages \o rest.pages,
                       opened |-> {p} \cup rest.opened,
                       failed |-> rest.failed]

\* A slip of lines 55-62: the loop run over reversed(insert_pdfs.items()), the
\* last label of the dict first.
RECURSIVE InsertsAfterPageLastFirst(_, _, _, _)
InsertsAfterPageLastFirst(num, items, kpm, files) ==
    IF items = << >>
    THEN NoPages
    ELSE LET e == items[Len(items)]
             b == IF e.keyword \in DOMAIN kpm /\ kpm[e.keyword] = num
                  THEN ReadInsertFiles(e.paths, files)
                  ELSE NoPages
         IN  IF ~b.ok
             THEN b
             ELSE LET rest == InsertsAfterPageLastFirst(num, SubSeq(items, 1, Len(items) - 1),
                                                        kpm, files)
                  IN  [ok |-> rest.ok,
                       pages |-> b.pages \o rest.pages,
                       opened |-> b.opened \cup rest.opened,
                       failed |-> rest.failed]

\* lines 55-62: the loop over insert_pdfs.items() after one main page
RECURSIVE InsertsAfterPage(_, _, _, _)
InsertsAfterPage(num, items, kpm, files) ==
    IF items = << >>
    THEN NoPages
    ELSE LET e == Head(items)
             b == IF Matches(e.keyword, kpm, num)
                  THEN ReadInsertFiles(e.paths, files)
                  ELSE NoPages
         IN  IF ~b.ok
             THEN b
             ELSE LET rest == InsertsAfterPage(num, Tail(items), kpm, files)
                  IN  [ok |-> rest.ok,
                       pages |-> b.pages \o rest.pages,
                       opened |-> b.opened \cup rest.opened,
                       failed |-> rest.failed]

\* A slip of lines 51-62: the inserts added before the page they follow.
PageStepInsertsFirst(page, inserts) == inserts \o <<page>>

\* lines 51-62: what one iteration of the page loop adds to the writer
PageStep(page, inserts) == <<page>> \o inserts

\* lines 46-62: the writer after the first n iterations of the page loop, as a
\* function of the inputs: the pages added, the files opened, and whether an
\* insert file stopped it.
RECURSIVE WriterAfter(_, _, _, _, _)
WriterAfter(n, mainPages, items, kpm, files) ==
    IF n = 0
    THEN NoPages
    ELSE LET prev == WriterAfter(n - 1, mainPages, items, kpm, files)
         IN  IF ~prev.ok
             THEN prev
             ELSE LET r == InsertsAfterPage(n - 1, items, kpm, files)
                  IN  [ok |-> r.ok,
                       pages |-> prev.pages \o PageStep(mainPages[n], r.pages),
                       opened |-> prev.opened \cup r.opened,
                       failed |-> r.failed]

AsmIdle ==
    /\ apc = "none"
    /\ output_pdf_path = MainPdf
    /\ main_len = 0
    /\ page_num = 0
    /\ output_writer = << >>
    /\ opened = {}
    /\ out_opened = FALSE

\* A slip of lines 46-66: the output file opened for writing before the loop
\* instead of after it, which empties it before any insert file is read.
AsmOpenMainOutputFirst ==
    /\ apc = "open"
    /\ fs[MainPdf].ok
    /\ main_len' = Len(fs[MainPdf].pages)
    /\ page_num' = 0
    /\ output_writer' = << >>
    /\ apc' = "loop"
    /\ out_opened' = TRUE
    /\ fs' = [fs EXCEPT ![output_pdf_path] = [ok |-> TRUE, pages |-> << >>]]
    /\ UNCHANGED <<inputVars, mergeVars, ifaceVars, workerVars, exc, convVars, locVars, output_pdf_path, opened>>

\* lines 46-50: main_reader = PdfReader(main_pdf_path); output_writer =
\* PdfWriter(); range(len(main_reader.pages)).  The main PDF is a readable PDF.
AsmOpenMain ==
    /\ apc = "open"
    /\ fs[MainPdf].ok
    /\ main_len' = Len(fs[MainPdf].pages)
    /\ page_num' = 0
    /\ output_writer' = << >>
    /\ apc' = "loop"
    /\ UNCHANGED <<fs, inputVars, mergeVars, ifaceVars, workerVars, exc, convVars, locVars,
                   output_pdf_path, opened, out_opened>>

\* lines 50-62: one iteration of the page loop. The reader is lazy: the page is
\* read from the main file when it is asked for.
AsmPage ==
    /\ apc = "loop"
    /\ page_num < main_len
    /\ LET page == fs[MainPdf].pages[page_num + 1]
           r == InsertsAfterPage(page_num, insert_pdfs, keyword_page_map, fs)
       IN  /\ output_writer' = output_writer \o PageStep(page, r.pages)
           /\ opened' = opened \cup r.opened
           /\ IF r.ok
              THEN /\ page_num' = page_num + 1
                   /\ apc' = apc
                   /\ exc' = exc
              ELSE /\ page_num' = page_num
                   /\ apc' = "raised"
                   /\ exc' = [kind |-> "OSError", msg |-> r.failed, at |-> "insert"]
    /\ UNCHANGED <<fs, inputVars, mergeVars, ifaceVars, workerVars, convVars, locVars, output_pdf_path,
                   main_len, out_opened>>

\* lines 65-66: with open(output_pdf_path, 'wb') as output_file:
\* output_writer.write(output_file).  The open may be refused (the file stays
\* as it was) and the write may fail after the open has truncated the file.
AsmWrite ==
    /\ apc = "loop"
    /\ page_num = main_len
    /\ \E r \in {"ok", "open_fails", "write_fails"} :
        /\ out_opened' = (r # "open_fails")
        /\ fs' = CASE r = "ok" ->
                        [fs EXCEPT ![output_pdf_path] = [ok |-> TRUE, pages |-> output_writer]]
                   [] r = "write_fails" -> [fs EXCEPT ![output_pdf_path] = Unreadable]
                   [] OTHER -> fs
        /\ apc' = IF r = "ok" THEN "returned" ELSE "raised"
        /\ exc' = IF r = "ok" THEN exc
                  ELSE [kind |-> "OSError", msg |-> output_pdf_path, at |-> "write"]
    /\ UNCHANGED <<inputVars, mergeVars, ifaceVars, workerVars, convVars, locVars, output_pdf_path, main_len,
                   page_num, output_writer, opened>>

insert_pdfs_at_keywords ==
    \/ AsmOpenMain
    \/ AsmPage
    \/ AsmWrite

\* ------------------------------------------------------------ Worker.run
\* str(e)
Str(e) == e.msg

Signal(name, arg) == [name |-> name, arg |-> arg]

\* QThread.start() runs run(); line 37: self._create_pdf()
WorkerCreatePdf ==
    /\ wpc = "Idle"
    /\ wpc' = "Converting"
    /\ cpc' = "dispatch"
    /\ UNCHANGED <<fs, inputVars, mergeVars, ifaceVars, signals, exc, session, quit_calls, doc, pending,
                   locVars, asmVars>>

\* A slip of lines 36-38: the conversion's failure swallowed by a try of its
\* own, so that the run goes on to look for keywords.
WorkerFindKeywordsRegardless ==
    /\ wpc = "Converting"
    /\ cpc \in {"returned", "raised"}
    /\ wpc' = "Locating"
    /\ keywords' = Keys(insert_pdfs)
    /\ lpc' = "open"
    /\ UNCHANGED <<fs, inputVars, mergeVars, ifaceVars, signals, exc, convVars, scan_i, pdf_pages_len,
                   keyword_page_map, asmVars>>

\* line 38: keyword_page_map = self._find_keywords(), with
\* keywords = list(self.insert_pdfs.keys())
WorkerFindKeywords ==
    /\ wpc = "Converting"
    /\ cpc = "returned"
    /\ wpc' = "Locating"
    /\ keywords' = Keys(insert_pdfs)
    /\ lpc' = "open"
    /\ UNCHANGED <<fs, inputVars, mergeVars, ifaceVars, signals, exc, convVars, scan_i, pdf_pages_len,
                   keyword_page_map, asmVars>>

\* line 39: self._insert_pdfs(keyword_page_map): reads and writes self.pdf_path
WorkerInsertPdfs ==
    /\ wpc = "Locating"
    /\ lpc = "returned"
    /\ wpc' = "Assembling"
    /\ output_pdf_path' = MainPdf
    /\ apc' = "open"
    /\ UNCHANGED <<fs, inputVars, mergeVars, ifaceVars, signals, exc, convVars, locVars, main_len, page_num,
                   output_writer, opened, out_opened>>

\* line 40: self.process_finished.emit(self.pdf_path)
WorkerEmitFinished ==
    /\ wpc = "Assembling"
    /\ apc = "returned"
    /\ signals' = Append(signals, Signal("process_finished", MainPdf))
    /\ wpc' = "Done"
    /\ UNCHANGED <<fs, inputVars, mergeVars, ifaceVars, exc, convVars, locVars, asmVars>>

StageRaised ==
    \/ wpc = "Converting" /\ cpc = "raised"
    \/ wpc = "Locating" /\ lpc = "raised"
    \/ wpc = "Assembling" /\ apc = "raised"

\* A slip of lines 40-42: process_finished emitted after the try statement
\* instead of inside it, so that it follows error_occurred too.
WorkerEmitErrorThenFinished ==
    /\ StageRaised
    /\ signals' = signals \o <<Signal("error_occurred", Str(exc)),
                               Signal("process_finished", MainPdf)>>
    /\ wpc' = "Failed"
    /\ UNCHANGED <<fs, inputVars, mergeVars, ifaceVars, exc, convVars, locVars, asmVars>>

\* lines 41-42: except Exception as e: self.error_occurred.emit(str(e))
WorkerEmitError ==
    /\ StageRaised
    /\ signals' = Append(signals, Signal("error_occurred", Str(exc)))
    /\ wpc' = "Failed"
    /\ UNCHANGED <<fs, inputVars, mergeVars, ifaceVars, exc, convVars, locVars, asmVars>>

\* ------------------------------------------------------- specifications
DiskAtStart ==
    [p \in Paths |-> IF p \in InsertFiles THEN InsertFileContent(p) ELSE Unreadable]

\* What sorted(dir_path.glob("*.pdf")) can give for one section's directory.
WorkerLists == {<< >>, <<"bad.pdf">>, <<"f1.pdf", "f2.pdf">>}

\* The dicts a Worker is built with: distinct labels, each with a sorted list.
WorkerInsertSets ==
    {d \in SeqsUpTo({Entry(k, ps) : k \in Labels, ps \in WorkerLists}, 2) :
        IsInjective(Keys(d))}

\* A Worker just constructed, over a Word document of at least one page.
Init ==
    /\ fs = DiskAtStart
    /\ fs_before = fs
    /\ word_doc \in SeqsUpTo(Texts, MaxDocPages) \ {<< >>}
    /\ insert_pdfs \in WorkerInsertSets
    /\ MergeIdle
    /\ IfaceIdle
    /\ wpc = "Idle"
    /\ signals = << >>
    /\ exc = NoException
    /\ ConvIdle
    /\ LocIdle
    /\ keyword_page_map = << >>
    /\ AsmIdle

Next ==
    \/ WorkerCreatePdf
    \/ create_pdf_from_word
    \/ WorkerFindKeywords
    \/ find_keywords_in_pdf
    \/ WorkerInsertPdfs
    \/ insert_pdfs_at_keywords
    \/ WorkerEmitFinished
    \/ WorkerEmitError

Spec == Init /\ [][Next]_vars

\* find_keywords_in_pdf called on its own, on any PDF and any keyword list.
LocatePdfs ==
    {[ok |-> TRUE, pages |-> [i \in 1..Len(t) |-> Page("main", i - 1, t[i])]] :
        t \in SeqsUpTo(Texts, MaxPages)} \cup {Unreadable}

InitLocate ==
    /\ \E pdf \in LocatePdfs : fs = [DiskAtStart EXCEPT ![MainPdf] = pdf]
    /\ fs_before = fs
    /\ word_doc = << >>
    /\ insert_pdfs = << >>
    /\ MergeIdle
    /\ IfaceIdle
    /\ wpc = "Idle"
    /\ signals = << >>
    /\ exc = NoException
    /\ ConvIdle
    /\ lpc = "open"
    /\ keywords \in SeqsUpTo(Labels, MaxKeywords)
    /\ scan_i = 0
    /\ pdf_pages_len = 0
    /\ keyword_page_map = << >>
    /\ AsmIdle

SpecLocate == InitLocate /\ [][find_keywords_in_pdf]_vars

\* insert_pdfs_at_keywords called on its own, on any dict, any keyword-page
\* map (anchors past the last page included) and either output path.
AsmLabels == {LabelX, LabelY}

AsmLists == {ps \in SeqsUpTo(InsertFiles, MaxFiles) : IsInjective(ps)}

AsmInsertSets ==
    {d \in SeqsUpTo({Entry(k, ps) : k \in AsmLabels, ps \in AsmLists}, Cardinality(AsmLabels)) :
        IsInjective(Keys(d))}

KeywordPageMaps == UNION {[D -> 0..MaxPages] : D \in SUBSET AsmLabels}

InitAssemble ==
    /\ \E n \in 0..MaxPages :
        fs = [DiskAtStart EXCEPT ![MainPdf] = PdfOf("main", n),
                                 ![OtherPdf] = PdfOf("old", 1)]
    /\ fs_before = fs
    /\ word_doc = << >>
    /\ insert_pdfs \in AsmInsertSets
    /\ MergeIdle
    /\ IfaceIdle
    /\ wpc = "Idle"
    /\ signals = << >>
    /\ exc = NoException
    /\ ConvIdle
    /\ LocIdle
    /\ keyword_page_map \in KeywordPageMaps
    /\ apc = "open"
    /\ output_pdf_path \in {MainPdf, OtherPdf}
    /\ main_len = 0
    /\ page_num = 0
    /\ output_writer = << >>
    /\ opened = {}
    /\ out_opened = FALSE

SpecAssemble == InitAssemble /\ [][insert_pdfs_at_keywords]_vars

\* ------------------------------------------------- merge_pdfs_in_folder
\* Bounds: the length of a file name's stem, and the number of files in the folder.
MaxStemLen == 2
MaxFolder == 3

\* File names are sequences of character codes: a stem of a's and b's and a
\* suffix, ".pdf" or ".txt".
StemChars == {97, 98}
PdfSuffix == <<46, 112, 100, 102>>
TxtSuffix == <<46, 116, 120, 116>>

Stems == SeqsUpTo(StemChars, MaxStemLen) \ {<< >>}

FileNames == {st \o PdfSuffix : st \in Stems} \cup {<<97>> \o TxtSuffix}

EndsWith(name, suffix) ==
    /\ Len(name) >= Len(suffix)
    /\ SubSeq(name, Len(name) - Len(suffix) + 1, Len(name)) = suffix

\* folder.glob("*.pdf"): the files of the folder itself whose name ends in .pdf
Glob(names) == {n \in names : EndsWith(n, PdfSuffix)}

\* The order of Python strings: by the first character that differs, a proper
\* prefix first.
RECURSIVE LexLess(_, _)
LexLess(a, b) ==
    IF a = << >> THEN b # << >>
    ELSE IF b = << >> THEN FALSE
    ELSE IF Head(a) = Head(b) THEN LexLess(Tail(a), Tail(b))
    ELSE Head(a) < Head(b)

\* A slip of line 104: sorted(..., reverse=True).
RECURSIVE SortedDescending(_)
SortedDescending(S) ==
    IF S = {}
    THEN << >>
    ELSE LET m == CHOOSE x \in S : \A y \in S \ {x} : LexLess(y, x)
         IN  <<m>> \o SortedDescending(S \ {m})

\* line 104: sorted(...) of the paths of one folder
RECURSIVE Sorted(_)
Sorted(S) ==
    IF S = {}
    THEN << >>
    ELSE LET m == CHOOSE x \in S : \A y \in S \ {x} : LexLess(x, y)
         IN  <<m>> \o Sorted(S \ {m})

\* A PDF of the folder has as many pages as its stem has characters.
FolderPages(name) == [i \in 1..(Len(name) - Len(PdfSuffix)) |-> Page(name, i - 1, << >>)]

\* lines 102-107: merger = PdfWriter(); pdf_files = sorted(folder.glob("*.pdf"));
\* if not pdf_files: return
MergeList ==
    /\ mpc = "start"
    /\ merger' = << >>
    /\ pdf_files' = Sorted(Glob(folder))
    /\ merge_i' = 1
    /\ mpc' = IF pdf_files' = << >> THEN "returned" ELSE "append"
    /\ UNCHANGED <<fs, inputVars, ifaceVars, workerVars, exc, convVars, locVars, asmVars,
                   folder, damaged, merge_out, merge_out_before>>

\* lines 110-111: merger.append(pdf_file), which raises on a file that is no PDF
MergeAppend ==
    /\ mpc = "append"
    /\ merge_i <= Len(pdf_files)
    /\ IF pdf_files[merge_i] \in damaged
       THEN /\ mpc' = "raised"
            /\ exc' = [kind |-> "PdfError", msg |-> "append", at |-> "merge"]
            /\ UNCHANGED <<merger, merge_i>>
       ELSE /\ merger' = merger \o FolderPages(pdf_files[merge_i])
            /\ merge_i' = merge_i + 1
            /\ UNCHANGED <<mpc, exc>>
    /\ UNCHANGED <<fs, inputVars, ifaceVars, workerVars, convVars, locVars, asmVars,
                   folder, damaged, pdf_files, merge_out, merge_out_before>>

\* lines 114-116: with open(output_pdf_path, 'wb') as output_file:
\* merger.write(output_file); merger.close().  The open may be refused and the
\* write may fail after the open has emptied the file.
MergeWrite ==
    /\ mpc = "append"
    /\ merge_i > Len(pdf_files)
    /\ \E r \in {"ok", "open_fails", "write_fails"} :
        /\ merge_out' = CASE r = "ok" -> [exists |-> TRUE, pages |-> merger]
                          [] r = "write_fails" -> [exists |-> TRUE, pages |-> << >>]
                          [] OTHER -> merge_out
        /\ mpc' = IF r = "ok" THEN "returned" ELSE "raised"
        /\ exc' = IF r = "ok" THEN exc
                  ELSE [kind |-> "OSError", msg |-> "output", at |-> "write"]
    /\ UNCHANGED <<fs, inputVars, ifaceVars, workerVars, convVars, locVars, asmVars,
                   folder, damaged, pdf_files, merge_i, merger, merge_out_before>>

merge_pdfs_in_folder ==
    \/ MergeList
    \/ MergeAppend
    \/ MergeWrite

\* merge_pdfs_in_folder called on a folder of up to MaxFolder files, at most one
\* of its PDFs damaged, with an output path outside the folder that names no
\* file or an older file.
InitMerge ==
    /\ fs = DiskAtStart
    /\ fs_before = fs
    /\ word_doc = << >>
    /\ insert_pdfs = << >>
    /\ IfaceIdle
    /\ wpc = "Idle"
    /\ signals = << >>
    /\ exc = NoException
    /\ ConvIdle
    /\ LocIdle
    /\ keyword_page_map = << >>
    /\ AsmIdle
    /\ mpc = "start"
    /\ folder \in {F \in SUBSET FileNames : Cardinality(F) <= MaxFolder}
    /\ damaged \in {D \in SUBSET Glob(folder) : Cardinality(D) <= 1}
    /\ pdf_files = << >>
    /\ merge_i = 0
    /\ merger = << >>
    /\ merge_out \in {Absent, [exists |-> TRUE, pages |-> <<Page("old", 0, << >>)>>]}
    /\ merge_out_before = merge_out

SpecMerge == InitMerge /\ [][merge_pdfs_in_folder]_vars

\* ------------------------------------------------- Interface
\* Bound: the number of Workers one Interface creates.
MaxRuns == 2

INPUT_ERROR_TITLE == "Input Error"

\* A path is its name without the suffix, and its suffix.
ReportFiles == {[stem |-> "C:/report", suffix |-> ".docx"]}

ReportInputs ==
    ReportFiles \cup {NoText, [stem |-> "C:/PRC Data", suffix |-> ""],
                      [stem |-> "C:/gone", suffix |-> ".docx"]}

\* Path.is_file(): the path names a file that exists
IsFile(path) == path \in ReportFiles

\* Path.with_suffix
WithSuffix(path, suffix) == [stem |-> path.stem, suffix |-> suffix]

\* A slip of line 157: only the empty text is refused.
VerifyInputsNonEmpty(text) == ~(text = NoText)

\* lines 155-160, the value returned by _verify_inputs
VerifyInputs(text) == ~(text = NoText \/ ~IsFile(text))

\* A window that is modal for the application is on screen: the main window
\* takes no input.
ModalOpen == boxes # << >> \/ \E d \in 1..Len(dialogs) : dialogs[d] = "visible"

Running == {"Converting", "Locating", "Assembling"}

\* QDialog.hide() of self.progress_dialog, the dialog created last
HideProgressDialog ==
    [d \in 1..Len(dialogs) |->
        IF d = Len(dialogs) /\ dialogs[d] = "visible" THEN "hidden" ELSE dialogs[d]]

\* line 281, report_input.setText, or the user typing into the field
SetReportInput ==
    /\ ~aborted
    /\ ~ModalOpen
    /\ \E text \in ReportInputs \ {report_input} : report_input' = text
    /\ UNCHANGED <<fs, inputVars, mergeVars, workerVars, exc, convVars, locVars, asmVars,
                   workers, dialogs, queue, boxes, launched, aborted>>

\* lines 139-153 with _verify_inputs and _show_progress_dialog: a click on
\* Generate.  The insert sets collected by _prepare_insert_pdfs are read from
\* the disk and change nothing.
ExecuteWorkerThread ==
    /\ ~aborted
    /\ ~ModalOpen
    /\ IF ~VerifyInputs(report_input)
       THEN /\ boxes' = Append(boxes, INPUT_ERROR_TITLE)
            /\ UNCHANGED <<workers, dialogs>>
       ELSE /\ Len(workers) < MaxRuns
            /\ workers' = Append(workers, [word_path |-> report_input,
                                           pdf_path |-> WithSuffix(report_input, ".pdf"),
                                           stage |-> "Converting"])
            /\ dialogs' = Append(dialogs, "visible")
            /\ UNCHANGED boxes
    /\ UNCHANGED <<fs, inputVars, mergeVars, workerVars, exc, convVars, locVars, asmVars,
                   report_input, queue, launched, aborted>>

NextStage(stage) ==
    CASE stage = "Converting" -> "Locating"
      [] stage = "Locating" -> "Assembling"
      [] stage = "Assembling" -> "Done"

\* worker.py lines 30-42 on the thread of Worker w: a stage returns or raises;
\* after the last stage process_finished is emitted, after a raise
\* error_occurred, and the signal is queued for the GUI thread.
WorkerStage(w) ==
    /\ ~aborted
    /\ w \in 1..Len(workers)
    /\ workers[w].stage \in Running
    /\ \E raises \in BOOLEAN :
        LET stage == IF raises THEN "Failed" ELSE NextStage(workers[w].stage)
        IN  /\ workers' = [workers EXCEPT ![w].stage = stage]
            /\ queue' = CASE stage = "Done" ->
                                Append(queue, [signal |-> "process_finished",
                                               arg |-> workers[w].pdf_path])
                          [] stage = "Failed" ->
                                Append(queue, [signal |-> "error_occurred", arg |-> "message"])
                          [] OTHER -> queue
    /\ UNCHANGED <<fs, inputVars, mergeVars, workerVars, exc, convVars, locVars, asmVars,
                   report_input, dialogs, boxes, launched, aborted>>

\* run() returns on the thread of Worker w.  A Worker that self.worker no
\* longer names (line 149 has bound the name to a later one) is destroyed here
\* while its thread is still running, on which Qt may end the process.
WorkerReturn(w) ==
    /\ ~aborted
    /\ w \in 1..Len(workers)
    /\ workers[w].stage \in {"Done", "Failed"}
    /\ \E abort \in {FALSE} \cup {w < Len(workers)} :
        /\ aborted' = abort
        /\ workers' = [workers EXCEPT ![w].stage = "Returned"]
        /\ IF abort
           THEN /\ dialogs' = [d \in 1..Len(dialogs) |->
                                  IF dialogs[d] = "visible" THEN "hidden" ELSE dialogs[d]]
                /\ boxes' = << >>
                /\ queue' = << >>
           ELSE UNCHANGED <<dialogs, boxes, queue>>
    /\ UNCHANGED <<fs, inputVars, mergeVars, workerVars, exc, convVars, locVars, asmVars,
                   report_input, launched>>

\* A slip of lines 214-221: the message box without the hide().
HandleErrorWithoutHide ==
    /\ ~aborted
    /\ queue # << >>
    /\ Head(queue).signal = "error_occurred"
    /\ queue' = Tail(queue)
    /\ boxes' = Append(boxes, "Runtime Error")
    /\ UNCHANGED <<fs, inputVars, mergeVars, workerVars, exc, convVars, locVars, asmVars,
                   report_input, workers, dialogs, launched, aborted>>

\* lines 214-221: the GUI thread takes a queued error_occurred
HandleError ==
    /\ ~aborted
    /\ queue # << >>
    /\ Head(queue).signal = "error_occurred"
    /\ queue' = Tail(queue)
    /\ dialogs' = HideProgressDialog
    /\ boxes' = Append(boxes, "Runtime Error")
    /\ UNCHANGED <<fs, inputVars, mergeVars, workerVars, exc, convVars, locVars, asmVars,
                   report_input, workers, launched, aborted>>

\* lines 223-230: the GUI thread takes a queued process_finished
HandleFinished ==
    /\ ~aborted
    /\ queue # << >>
    /\ Head(queue).signal = "process_finished"
    /\ queue' = Tail(queue)
    /\ dialogs' = HideProgressDialog
    /\ launched' = Append(launched, Head(queue).arg)
    /\ UNCHANGED <<fs, inputVars, mergeVars, workerVars, exc, convVars, locVars, asmVars,
                   report_input, workers, boxes, aborted>>

\* lines 365-381: Dialog is a QDialog that overrides neither reject nor
\* closeEvent, so Escape or the close button hides it.
RejectDialog ==
    /\ ~aborted
    /\ boxes = << >>
    /\ \E d \in 1..Len(dialogs) :
        /\ dialogs[d] = "visible"
        /\ dialogs' = [dialogs EXCEPT ![d] = "rejected"]
    /\ UNCHANGED <<fs, inputVars, mergeVars, workerVars, exc, convVars, locVars, asmVars,
                   report_input, workers, queue, boxes, launched, aborted>>

\* lines 293-306: msg.exec_() returns when the user closes the topmost box
CloseErrorMsg ==
    /\ ~aborted
    /\ boxes # << >>
    /\ boxes' = SubSeq(boxes, 1, Len(boxes) - 1)
    /\ UNCHANGED <<fs, inputVars, mergeVars, workerVars, exc, convVars, locVars, asmVars,
                   report_input, workers, dialogs, queue, launched, aborted>>

\* An Interface after __init__ (lines 50-52: no worker, no progress dialog),
\* its report field holding any text.
InitInterface ==
    /\ fs = DiskAtStart
    /\ fs_before = fs
    /\ word_doc = << >>
    /\ insert_pdfs = << >>
    /\ MergeIdle
    /\ wpc = "Idle"
    /\ signals = << >>
    /\ exc = NoException
    /\ ConvIdle
    /\ LocIdle
    /\ keyword_page_map = << >>
    /\ AsmIdle
    /\ report_input \in ReportInputs
    /\ workers = << >>
    /\ dialogs = << >>
    /\ queue = << >>
    /\ boxes = << >>
    /\ launched = << >>
    /\ aborted = FALSE

NextInterface ==
    \/ SetReportInput
    \/ ExecuteWorkerThread
    \/ \E w \in 1..MaxRuns : WorkerStage(w)
    \/ \E w \in 1..MaxRuns : WorkerReturn(w)
    \/ HandleError
    \/ HandleFinished
    \/ RejectDialog
    \/ CloseErrorMsg

SpecInterface == InitInterface /\ [][NextInterface]_vars

\* Every stage of a Worker terminates, its run() returns, and the GUI thread's
\* event loop takes every queued signal; nothing is assumed of the user.
SpecInterfaceFair ==
    /\ SpecInterface
    /\ \A w \in 1..MaxRuns : WF_vars(WorkerStage(w)) /\ WF_vars(WorkerReturn(w))
    /\ WF_vars(HandleError)
    /\ WF_vars(HandleFinished)

\* ================================================================ claims
\* The main PDF and the insert files as insert_pdfs_at_keywords finds them.
MainPages == fs_before[MainPdf].pages

MainCount == Len(MainPages)

\* The anchor of the j-th entry of insert_pdfs is a page of the main PDF.
Anchored(j) ==
    /\ insert_pdfs[j].keyword \in DOMAIN keyword_page_map
    /\ keyword_page_map[insert_pdfs[j].keyword] \in 0..(MainCount - 1)

AnchorOf(j) == keyword_page_map[insert_pdfs[j].keyword]

\* All pages of the files of a list, in list order and file order.
RECURSIVE Bundle(_)
Bundle(paths) ==
    IF paths = << >>
    THEN << >>
    ELSE fs_before[Head(paths)].pages \o Bundle(Tail(paths))

\* The pages of the bundles of the first n entries anchored in lo..hi.
RECURSIVE BundleSum(_, _, _)
BundleSum(n, lo, hi) ==
    IF n = 0
    THEN 0
    ELSE BundleSum(n - 1, lo, hi)
         + (IF Anchored(n) /\ AnchorOf(n) \in lo..hi
            THEN Len(Bundle(insert_pdfs[n].paths))
            ELSE 0)

OutputPages == fs[output_pdf_path].pages

\* C1: when insert_pdfs_at_keywords has written its output, the output has the
\* main PDF's page count plus, for every label of insert_pdfs that is a key of
\* the keyword-page map with an anchor that is a page of the main PDF, the
\* pages of all PDFs of that label's insert list; every other label adds none.
C1_PageCount ==
    apc = "returned" =>
        Len(OutputPages) = MainCount + BundleSum(Len(insert_pdfs), 0, MainCount - 1)

\* A run with a matched label and an unmatched label, both with files.
C1_Witness ==
    /\ apc = "returned"
    /\ Len(OutputPages) > MainCount
    /\ \E j, k \in 1..Len(insert_pdfs) :
        /\ Anchored(j) /\ insert_pdfs[j].paths # << >>
        /\ insert_pdfs[k].keyword \notin DOMAIN keyword_page_map
        /\ insert_pdfs[k].paths # << >>

\* The position in the output of main page i (from 0).
PosMain(i) == i + 1 + BundleSum(Len(insert_pdfs), 0, i - 1)

\* The pages put between main page AnchorOf(j) and the bundle of entry j: the
\* bundles of the entries before j with the same anchor.
OffsetOf(j) == BundleSum(j - 1, AnchorOf(j), AnchorOf(j))

\* C2: in the written output the main pages are in their original order, main
\* page i at position PosMain(i); the bundle of every label anchored at page i
\* is one contiguous run, in list order and page order, that lies after main
\* page i and before main page i+1, starting right after main page i (after
\* the bundles of the labels before it in insert_pdfs that share the anchor).
C2_Order ==
    apc = "returned" =>
        /\ \A i \in 0..(MainCount - 1) :
            /\ PosMain(i) <= Len(OutputPages)
            /\ OutputPages[PosMain(i)] = MainPages[i + 1]
        /\ \A j \in 1..Len(insert_pdfs) :
            Anchored(j) =>
                LET first == PosMain(AnchorOf(j)) + OffsetOf(j) + 1
                    last == first + Len(Bundle(insert_pdfs[j].paths)) - 1
                IN  /\ last <= Len(OutputPages)
                    /\ SubSeq(OutputPages, first, last) = Bundle(insert_pdfs[j].paths)
                    /\ AnchorOf(j) + 1 < MainCount => last < PosMain(AnchorOf(j) + 1)

\* Main [A, B, C], one label anchored at index 1 with files of 2 and 1 pages:
\* the output is [A, B, I1p1, I1p2, I2p1, C].
C2_Witness ==
    /\ apc = "returned"
    /\ MainCount = 3
    /\ insert_pdfs = <<Entry(LabelX, <<"f1.pdf", "f2.pdf">>)>>
    /\ keyword_page_map = (LabelX :> 1)
    /\ OutputPages = <<MainPages[1], MainPages[2],
                       Page("f1.pdf", 0, << >>), Page("f1.pdf", 1, << >>),
                       Page("f2.pdf", 0, << >>), MainPages[3]>>

\* The pages of the searched PDF whose extracted text holds label k.
PagesHolding(k) ==
    {i \in 0..(Len(fs[MainPdf].pages) - 1) : IsSubstring(k, fs[MainPdf].pages[i + 1].text)}

Highest(S) == CHOOSE i \in S : \A j \in S : j <= i

KeywordSet == {keywords[i] : i \in 1..Len(keywords)}

\* C3: when find_keywords_in_pdf returns, every label of the keyword list that
\* is a substring of the text of at least one page is mapped to the highest
\* page index whose text holds it; and during the scan a recorded label is
\* never given another page.
C3_HighestPage ==
    /\ lpc = "returned" =>
        \A k \in KeywordSet :
            PagesHolding(k) # {} =>
                /\ k \in DOMAIN keyword_page_map
                /\ keyword_page_map[k] = Highest(PagesHolding(k))
    /\ lpc = "scan" =>
        \A k \in DOMAIN keyword_page_map :
            /\ keyword_page_map[k] = Highest(PagesHolding(k))
            /\ keyword_page_map[k] >= pdf_pages_len - scan_i

\* A label on the first and the last of three pages, and not between, recorded
\* at the last after the whole scan.
C3_Witness ==
    /\ lpc = "returned"
    /\ \E k \in KeywordSet :
        /\ PagesHolding(k) = {0, 2}
        /\ keyword_page_map[k] = 2

\* The run of insert_pdfs_at_keywords has read everything it reads: it is about
\* to write, has written, or was stopped.
ReadingOver == (apc = "loop" /\ page_num = main_len) \/ apc \in {"returned", "raised"}

\* insert_pdfs without its j-th entry.
WithoutEntry(j) == SubSeq(insert_pdfs, 1, j - 1) \o SubSeq(insert_pdfs, j + 1, Len(insert_pdfs))

\* C4: a label of insert_pdfs with a non-empty insert list that is no key of the
\* keyword-page map changes nothing: the pages added to the writer, the insert
\* files opened, whether an insert file stopped the run, and the written output
\* are those of the call with that label removed from insert_pdfs.
C4_MissingAnchor ==
    ReadingOver =>
        \A j \in 1..Len(insert_pdfs) :
            (insert_pdfs[j].keyword \notin DOMAIN keyword_page_map /\ insert_pdfs[j].paths # << >>) =>
                LET w == WriterAfter(MainCount, MainPages, WithoutEntry(j),
                                     keyword_page_map, fs_before)
                IN  /\ output_writer = w.pages
                    /\ opened = w.opened
                    /\ (apc = "raised" /\ exc.at = "insert") <=> ~w.ok
                    /\ apc = "returned" => OutputPages = w.pages

\* A run that wrote its output with an unmatched label whose list names a file
\* that cannot be read, beside a matched label that added pages.
C4_Witness ==
    /\ apc = "returned"
    /\ Len(OutputPages) > MainCount
    /\ \E j \in 1..Len(insert_pdfs) :
        /\ insert_pdfs[j].keyword \notin DOMAIN keyword_page_map
        /\ \E n \in 1..Len(insert_pdfs[j].paths) : insert_pdfs[j].paths[n] = "bad.pdf"

\* The PDF the conversion of the run's Word document gives.
ConvertedPages == SaveAsResult(word_doc, WD_PDF_FORMAT).pages

\* The labels of insert_pdfs that the text of some converted page holds.
FoundLabels ==
    {k \in KeySet(insert_pdfs) :
        \E i \in 1..Len(ConvertedPages) : IsSubstring(k, ConvertedPages[i].text)}

\* C5: at every point of a Worker run every label of the keyword-page map is a
\* key of the run's insert_pdfs and its value is a page index 0..N-1 of the
\* converted PDF whose text holds the label; once find_keywords_in_pdf has
\* returned the map holds exactly the labels found on some page, a label on no
\* page (pages without text included) being left out.
C5_MapOnlyFoundLabels ==
    /\ \A k \in DOMAIN keyword_page_map :
        /\ k \in KeySet(insert_pdfs)
        /\ keyword_page_map[k] \in 0..(Len(ConvertedPages) - 1)
        /\ IsSubstring(k, ConvertedPages[keyword_page_map[k] + 1].text)
    /\ lpc = "returned" => DOMAIN keyword_page_map = FoundLabels

\* The locator has returned a map with one label found and one left out, over a
\* document with a page without text.
C5_Witness ==
    /\ lpc = "returned"
    /\ DOMAIN keyword_page_map # {}
    /\ KeySet(insert_pdfs) \ DOMAIN keyword_page_map # {}
    /\ \E i \in 1..Len(ConvertedPages) : ConvertedPages[i].text = << >>

StageOrder ==
    {<<"Idle", "Converting">>, <<"Converting", "Locating">>, <<"Locating", "Assembling">>,
     <<"Assembling", "Done">>, <<"Converting", "Failed">>, <<"Locating", "Failed">>,
     <<"Assembling", "Failed">>}

\* One step of a run keeps to the order convert, locate, assemble.
StageStep ==
    /\ wpc' # wpc => <<wpc, wpc'>> \in StageOrder
    /\ (wpc' # wpc /\ wpc' = "Locating") => (cpc = "returned" /\ lpc = "none" /\ apc = "none")
    /\ (wpc' # wpc /\ wpc' = "Assembling") => (cpc = "returned" /\ lpc = "returned" /\ apc = "none")
    /\ (wpc' # wpc /\ wpc' = "Done") => (cpc = "returned" /\ lpc = "returned" /\ apc = "returned")
    /\ (wpc' # wpc /\ wpc' = "Failed") =>
        \/ wpc = "Converting" /\ cpc = "raised" /\ lpc = "none" /\ apc = "none"
        \/ wpc = "Locating" /\ lpc = "raised" /\ apc = "none"
        \/ wpc = "Assembling" /\ apc = "raised"
    /\ cpc' # cpc => wpc' = "Converting"
    /\ lpc' # lpc => wpc' = "Locating"
    /\ apc' # apc => wpc' = "Assembling"

\* C6: in every Worker run the stages go strictly in the order convert, locate,
\* assemble: Converting is never skipped, Locating starts only after the
\* conversion has returned, Assembling only after the locator has returned,
\* Done only after the assembly has returned; a failure of the active stage
\* leads to Failed, which is terminal, and no later stage is started.
C6_StageOrder == [][StageStep]_vars

\* A run that failed while locating and never started the assembly.
C6_Witness ==
    /\ wpc = "Failed"
    /\ cpc = "returned"
    /\ lpc = "raised"
    /\ apc = "none"

\* C7: a Worker run emits at most one signal and ends with exactly one:
\* process_finished with the output path when all three stages have returned,
\* and otherwise error_occurred with the message of the failure; a run that
\* can take no further step has ended in Done or Failed; after a failed stage
\* process_finished is never emitted.
C7_OneTerminalSignal ==
    /\ Len(signals) <= 1
    /\ wpc \notin {"Done", "Failed"} => signals = << >>
    /\ wpc = "Done" =>
        /\ signals = <<Signal("process_finished", MainPdf)>>
        /\ cpc = "returned" /\ lpc = "returned" /\ apc = "returned"
    /\ wpc = "Failed" =>
        /\ signals = <<Signal("error_occurred", exc.msg)>>
        /\ exc # NoException
        /\ "raised" \in {cpc, lpc, apc}
    /\ ~ENABLED Next => wpc \in {"Done", "Failed"}

\* A run whose assembly was stopped by the unreadable insert file: one
\* error_occurred with that failure's message.
C7_Witness ==
    /\ wpc = "Failed"
    /\ apc = "raised"
    /\ signals = <<Signal("error_occurred", "bad.pdf")>>

DocumentSteps == {"Open", "ShowRevisions", "PrintRevisions", "SaveAs", "Close", "HandlerClose"}

\* C8: an engine error raised while create_pdf_from_word opens, configures,
\* saves or closes the document leaves the function as a RuntimeError with the
\* underlying error's message, the close of the failure handler included.
C8_EngineErrorsWrapped ==
    (cpc = "raised" /\ exc.at \in DocumentSteps) =>
        (exc.kind = "RuntimeError" /\ exc.msg = exc.at)

\* C9: once create_pdf_from_word has acquired the Word session, Quit has been
\* called exactly once when the function returns or raises, a failure of the
\* alert suppression before the document is opened included.
C9_QuitExactlyOnce ==
    (session # "none" /\ cpc \in {"returned", "raised"}) => quit_calls = 1

\* C10: when an insert file cannot be opened or read, insert_pdfs_at_keywords
\* stops with an error, the output file has not been opened for writing and
\* every file is what it was before the call; the output file is not opened
\* while the pages are being read.
C10_NoPartialOutput ==
    /\ (\E p \in opened : ~fs_before[p].ok) =>
        /\ apc = "raised"
        /\ exc.at = "insert"
        /\ ~out_opened
        /\ fs = fs_before
    /\ (apc = "loop" \/ (apc = "raised" /\ exc.at = "insert")) =>
        (~out_opened /\ fs[output_pdf_path] = fs_before[output_pdf_path])

\* A run stopped by the unreadable insert file after pages had been added to
\* the writer, with an output file that existed before the call.
C10_Witness ==
    /\ apc = "raised"
    /\ exc.at = "insert"
    /\ Len(output_writer) > 2
    /\ output_pdf_path = OtherPdf
    /\ fs[OtherPdf] = PdfOf("old", 1)

\* C14: with the output path equal to the main PDF path, as with any other,
\* the written pages are those the page loop gives on the main PDF as it was
\* before the call; while pages are being read the output file has not been
\* opened for writing and the main PDF is what it was.
C14_InPlaceOutput ==
    /\ apc = "returned" =>
        OutputPages = WriterAfter(MainCount, MainPages, insert_pdfs,
                                  keyword_page_map, fs_before).pages
    /\ (apc = "loop" /\ page_num < main_len) =>
        (~out_opened /\ fs[MainPdf] = fs_before[MainPdf])
    /\ out_opened => (page_num = main_len /\ apc \in {"returned", "raised"})

\* A run that wrote over its own main PDF, of two pages or more, with pages
\* inserted after the first of them.
C14_Witness ==
    /\ apc = "returned"
    /\ output_pdf_path = MainPdf
    /\ MainCount >= 2
    /\ \E j \in 1..Len(insert_pdfs) :
        Anchored(j) /\ AnchorOf(j) = 0 /\ insert_pdfs[j].paths # << >>
    /\ fs[MainPdf] # fs_before[MainPdf]

\* The keyword lists with the same labels as the list of the run: its
\* permutations and its versions with a label repeated.
SameLabelLists ==
    {kws \in SeqsUpTo(Labels, MaxKeywords + 1) :
        {kws[i] : i \in 1..Len(kws)} = KeywordSet}

\* C15: the map find_keywords_in_pdf returns is the map it gives for the same
\* PDF on every keyword list with the same set of labels: on the same list
\* again, on a permutation of it and with a label repeated.
C15_LabelOrderIrrelevant ==
    lpc = "returned" =>
        \A kws \in SameLabelLists :
            FindKeywordsAfter(Len(fs[MainPdf].pages), fs[MainPdf].pages, kws) = keyword_page_map

\* A returned map with two labels found on the same page, from a list of two
\* different labels (so a permutation and a repetition exist).
C15_Witness ==
    /\ lpc = "returned"
    /\ Len(keywords) = 2
    /\ keywords[1] # keywords[2]
    /\ DOMAIN keyword_page_map = KeywordSet
    /\ keyword_page_map[keywords[1]] = keyword_page_map[keywords[2]]

\* The bundles of the first n entries of insert_pdfs anchored at page i, in the
\* order of the dict.
RECURSIVE BundlesAt(_, _)
BundlesAt(i, n) ==
    IF n = 0
    THEN << >>
    ELSE BundlesAt(i, n - 1)
         \o (IF Anchored(n) /\ AnchorOf(n) = i THEN Bundle(insert_pdfs[n].paths) ELSE << >>)

\* The output pages between main page i and the next main page (or the end).
GapAfter(i) ==
    SubSeq(OutputPages, PosMain(i) + 1,
           IF i + 1 < MainCount THEN PosMain(i + 1) - 1 ELSE Len(OutputPages))

\* C16: in the written output the pages between a main page and the next are
\* the bundles of the labels anchored at that page, whole and one after the
\* other in the iteration order of insert_pdfs (the keyword-page map is read
\* by key only, so its own order has no part).
C16_SharedAnchorOrder ==
    apc = "returned" =>
        \A i \in 0..(MainCount - 1) : GapAfter(i) = BundlesAt(i, Len(insert_pdfs))

\* Two labels anchored at the same page, the dict naming LabelY before LabelX,
\* with different non-empty bundles: LabelY's pages come first.
C16_Witness ==
    /\ apc = "returned"
    /\ MainCount = 2
    /\ insert_pdfs = <<Entry(LabelY, <<"f2.pdf">>), Entry(LabelX, <<"f1.pdf">>)>>
    /\ keyword_page_map = (LabelX :> 0 @@ LabelY :> 0)
    /\ GapAfter(0) = <<Page("f2.pdf", 0, << >>), Page("f1.pdf", 0, << >>),
                       Page("f1.pdf", 1, << >>)>>

\* The pages of the files of a list of folder names, in list order.
RECURSIVE ConcatFolder(_)
ConcatFolder(names) ==
    IF names = << >>
    THEN << >>
    ELSE FolderPages(Head(names)) \o ConcatFolder(Tail(names))

\* The lists that name every PDF of the folder once, in ascending name order.
AscendingLists ==
    {l \in [1..Cardinality(Glob(folder)) -> Glob(folder)] :
        \A i, j \in 1..Len(l) : i < j => LexLess(l[i], l[j])}

\* C12: on a folder without PDF files merge_pdfs_in_folder returns, raises
\* nothing, and the file at the output path is neither created nor changed; on
\* a folder with PDF files a call that returns has written one output whose
\* pages are the files' pages in ascending order of file name.
C12_MergeFolder ==
    /\ (Glob(folder) = {} /\ mpc # "start") =>
        (mpc = "returned" /\ merge_out = merge_out_before)
    /\ (Glob(folder) # {} /\ mpc = "returned") =>
        /\ merge_out.exists
        /\ \E l \in AscendingLists : merge_out.pages = ConcatFolder(l)

\* A merged folder of a.txt, b.pdf, ab.pdf and a.pdf: the output is a.pdf,
\* ab.pdf, b.pdf and nothing of a.txt.
C12_Witness ==
    /\ mpc = "returned"
    /\ folder = {<<97>> \o TxtSuffix, <<98>> \o PdfSuffix, <<97, 98>> \o PdfSuffix}
    /\ merge_out.pages = ConcatFolder(<<<<97, 98>> \o PdfSuffix, <<98>> \o PdfSuffix>>)

\* The text of the report field is empty, or names no file that exists.
InvalidSource(text) == text = NoText \/ text \notin ReportFiles

\* A step on an Interface whose report field holds an invalid path creates no
\* Worker and no progress dialog.
NoDispatch ==
    InvalidSource(report_input) =>
        /\ Len(workers') = Len(workers)
        /\ Len(dialogs') = Len(dialogs)
        /\ \A w \in 1..Len(workers) :
            workers'[w].stage = "Converting" => workers[w].stage = "Converting"

\* C11: with a source document path that is empty, missing or no file,
\* _execute_worker_thread creates and starts no Worker and shows no progress
\* dialog, so the pipeline does not enter Converting; every Worker there is
\* was created with a path that names an existing file.
C11_InvalidSourceRejected ==
    /\ [](\A w \in 1..Len(workers) : ~InvalidSource(workers[w].word_path))
    /\ [][NoDispatch]_vars

\* Generate was clicked on a path that names a folder or a missing file: the
\* input error box is open and there is no Worker and no dialog.
C11_Witness ==
    /\ boxes = <<INPUT_ERROR_TITLE>>
    /\ report_input # NoText
    /\ InvalidSource(report_input)
    /\ workers = << >>
    /\ dialogs = << >>

\* The Workers whose run() is in one of its stages.
ActiveWorkers == {w \in 1..Len(workers) : workers[w].stage \in Running}

\* C13: on one Interface at most one Worker run is active at a time, so no
\* two worker threads convert, read or write the same output PDF path at the
\* same time.
C13_SingleWriter ==
    \A v, w \in ActiveWorkers : v = w

\* C17: every progress dialog that _execute_worker_thread has shown is
\* hidden later on: by _handle_finished or _handle_error when the signal of
\* its run is taken, so that no dialog stays on screen after its Worker is Done
\* or Failed and the signal has been delivered.
C17_DialogHidden ==
    \A d \in 1..MaxRuns :
        (Len(dialogs) >= d /\ dialogs[d] = "visible")
            ~> (Len(dialogs) >= d /\ dialogs[d] # "visible")

\* The one run of an Interface has failed: _handle_error has hidden its
\* dialog and the runtime error box is open.
C17_Witness ==
    /\ Len(workers) = 1
    /\ workers[1].stage \in {"Failed", "Returned"}
    /\ dialogs = <<"hidden">>
    /\ boxes = <<"Runtime Error">>
    /\ queue = << >>
    /\ ~aborted

====
